---- MODULE Spec2Model ----
(***************************************************************************)
(* Remote execution and job submission tools of mcp_pykernel:              *)
(*   src/src/cmsagent/tools/ssh_tools.py     ssh_info_init,                 *)
(*                                           run_ssh_command,               *)
(*                                           run_scp_transfer               *)
(*   src/src/cmsagent/tools/slurm_manager.py set_slurm_defaults,            *)
(*                                           add_slurm_defaults,            *)
(*                                           prepare_sbatch_script_perlmutter*)
(*   src/src/cmsagent/system_manager.py      SSH_CONFIG and the tool layer  *)
(*                                                                         *)
(* Representation.  A Python str is a TLA+ string.  A filesystem path is   *)
(* the sequence of its components, i.e. path.split("/"): "~/.ssh/nersc" is *)
(* <<"~", ".ssh", "nersc">>, "/keys/id_rsa" is <<"", "keys", "id_rsa">>,   *)
(* and the empty path "" is <<>>.  An Optional value is None == <<>> or    *)
(* Some(v) == <<v>>.  Bytes are sequences of 0..255, decoded text is the   *)
(* sequence of its code points.  A dict result is a record.  A backquote   *)
(* of a message, which a TLA+ string cannot hold, is written as a quote.   *)
(***************************************************************************)
EXTENDS Integers, Sequences, FiniteSets, TLC

\* Number of concurrent callers (coroutines of the event loop), each making
\* one executor call.
NumTasks == 2
Tasks == 1..NumTasks

None == <<>>
Some(v) == <<v>>

----------------------------------------------------------------------------
(* Paths and the local filesystem *)

HomeDir == <<"", "home", "ada">>

RECURSIVE PathStr(_)
PathStr(p) ==
    IF p = <<>> THEN ""
    ELSE IF Len(p) = 1 THEN p[1]
    ELSE p[1] \o "/" \o PathStr(Tail(p))

\* os.path.expanduser: a leading "~" component is replaced by the home directory.
expanduser(p) ==
    IF p # <<>> /\ p[1] = "~" THEN HomeDir \o Tail(p) ELSE p

\* os.path.dirname: everything before the last component.
dirname(p) ==
    IF p = <<>> THEN <<>> ELSE SubSeq(p, 1, Len(p) - 1)

\* The directory p together with all its ancestors (the entries os.makedirs leaves behind).
WithParents(p) == { SubSeq(p, 1, n) : n \in 2..Len(p) }

\* os.makedirs(d, exist_ok=True)
makedirsMutNoop(files, d) == files
makedirs(files, d) == files \cup WithParents(d)

\* os.path.exists
exists(files, p) == p \in files

KeyNersc == <<"~", ".ssh", "nersc">>
KeyIdRsa == <<"", "keys", "id_rsa">>
KeyMissing == <<"~", ".ssh", "missing">>
LocalInput == <<"", "work", "scf.in">>
LocalAbsent == <<"", "work", "absent.in">>
LocalDownload == <<"", "work", "out", "run1", "scf.out">>
LocalScratch == <<"", "work", "tmp", "scf.out">>
JobScript == <<"", "work", "job.sh">>
JobScriptAbsent == <<"", "work", "nojob.sh">>
RemotePath == <<"", "global", "cfs", "scf.in">>

InitialFiles ==
    UNION { WithParents(f) : f \in {expanduser(KeyNersc), KeyIdRsa, LocalInput, JobScript} }

----------------------------------------------------------------------------
(* Connection configuration *)

\* SSH_CONFIG of system_manager.py at import time.
SSH_CONFIG_INITIALMutPrefilled ==
    [host |-> Some("perlmutter.nersc.gov"), username |-> Some("ada"),
     key_path |-> Some(KeyNersc)]
SSH_CONFIG_INITIAL == [host |-> None, username |-> None, key_path |-> None]

\* Python truthiness of an Optional[str]: None and "" are false.
Truthy(o) == o # None /\ Len(o[1]) > 0

\* all([ssh_config['host'], ssh_config['username'], ssh_config['key_path']])
AllSetMutNonNull(cfg) ==
    cfg.host # None /\ cfg.username # None /\ cfg.key_path # None
AllSet(cfg) ==
    Truthy(cfg.host) /\ Truthy(cfg.username) /\ Truthy(cfg.key_path)

\* ssh_config.update({...}) of ssh_info_init
ConfigUpdateMutKeepHost(cfg, host, username, key_path) ==
    [cfg EXCEPT !.host = IF cfg.host = None THEN Some(host) ELSE cfg.host,
                !.username = Some(username), !.key_path = Some(key_path)]
ConfigUpdate(cfg, host, username, key_path) ==
    [cfg EXCEPT !.host = Some(host), !.username = Some(username),
                !.key_path = Some(key_path)]

\* The two return values of ssh_info_init.
KeyNotFoundMessage(key_full_path) ==
    "Error: SSH private key " \o PathStr(key_full_path)
        \o " does not exist. Please check the path."
ConfirmationMessage(host, username, key_path) ==
    "SSH configuration: " \o username \o "@" \o host
        \o " (key: " \o PathStr(key_path) \o ")"

InitInputs ==
    { [host |-> "perlmutter.nersc.gov", username |-> "ada", key_path |-> KeyNersc],
      [host |-> "login.hpc.org", username |-> "bob", key_path |-> KeyIdRsa],
      [host |-> "", username |-> "ada", key_path |-> KeyNersc],
      [host |-> "perlmutter.nersc.gov", username |-> "eve", key_path |-> KeyMissing] }

----------------------------------------------------------------------------
(* Executor inputs, external processes and result shapes *)

RunInputs ==
    { [command |-> "ls", timeout |-> 30],
      [command |-> "sleep 60", timeout |-> 5] }

ScpInputs ==
    { [local_path |-> LocalInput, remote_path |-> RemotePath, direction |-> "upload",
       recursive |-> FALSE, timeout |-> 300],
      [local_path |-> LocalAbsent, remote_path |-> RemotePath, direction |-> "upload",
       recursive |-> FALSE, timeout |-> 300],
      [local_path |-> LocalDownload, remote_path |-> RemotePath, direction |-> "download",
       recursive |-> TRUE, timeout |-> 30],
      [local_path |-> LocalScratch, remote_path |-> RemotePath, direction |-> "sideways",
       recursive |-> FALSE, timeout |-> 30] }

\* What an exiting ssh/scp process leaves behind: its exit status and the raw
\* bytes of its two pipes.
Outcomes ==
    { [returncode |-> 0, stdout |-> <<111, 107, 10>>, stderr |-> <<>>],
      [returncode |-> 2, stdout |-> <<>>, stderr |-> <<195, 169, 255, 33>>] }

\* str(e) of the exception create_subprocess_exec raises when the program is missing.
SpawnError(program) ==
    "[Errno 2] No such file or directory: '" \o program \o "'"

\* bytes.decode('utf-8', errors='replace') on one- and two-byte sequences: an
\* undecodable byte becomes U+FFFD.
RECURSIVE decode(_)
decode(b) ==
    IF b = <<>> THEN <<>>
    ELSE IF b[1] < 128 THEN <<b[1]>> \o decode(Tail(b))
    ELSE IF b[1] \in 194..223 /\ Len(b) >= 2 /\ b[2] \in 128..191
        THEN <<(b[1] - 192) * 64 + (b[2] - 128)>> \o decode(SubSeq(b, 3, Len(b)))
    ELSE <<65533>> \o decode(Tail(b))

\* ssh_cmd of run_ssh_command
SshCommandMutFixedKey(cfg, command) ==
    << "ssh", "-l", cfg.username[1], "-i", PathStr(expanduser(KeyNersc)),
       "-o", "StrictHostKeyChecking=no", "-o", "ConnectTimeout=10",
       cfg.host[1], command \o "; exit" >>
SshCommand(cfg, command) ==
    << "ssh", "-l", cfg.username[1], "-i", PathStr(expanduser(cfg.key_path[1])),
       "-o", "StrictHostKeyChecking=no", "-o", "ConnectTimeout=10",
       cfg.host[1], command \o "; exit" >>

\* remote_location of run_scp_transfer
RemoteLocation(cfg, remote_path) ==
    cfg.username[1] \o "@" \o cfg.host[1] \o ":" \o PathStr(remote_path)

\* scp_cmd of run_scp_transfer, for direction in {"upload", "download"}
ScpCommandMutLocalFirst(cfg, in) ==
    << "scp", "-i", PathStr(expanduser(cfg.key_path[1])),
       "-o", "StrictHostKeyChecking=no", "-o", "ConnectTimeout=10" >>
    \o (IF in.recursive THEN << "-r" >> ELSE << >>)
    \o << PathStr(in.local_path), RemoteLocation(cfg, in.remote_path) >>
ScpCommand(cfg, in) ==
    << "scp", "-i", PathStr(expanduser(cfg.key_path[1])),
       "-o", "StrictHostKeyChecking=no", "-o", "ConnectTimeout=10" >>
    \o (IF in.recursive THEN << "-r" >> ELSE << >>)
    \o (IF in.direction = "upload"
        THEN << PathStr(in.local_path), RemoteLocation(cfg, in.remote_path) >>
        ELSE << RemoteLocation(cfg, in.remote_path), PathStr(in.local_path) >>)

\* operation of run_scp_transfer
Operation(cfg, in) ==
    IF in.direction = "upload"
    THEN "Upload " \o PathStr(in.local_path) \o " -> "
            \o RemoteLocation(cfg, in.remote_path)
    ELSE "Download " \o RemoteLocation(cfg, in.remote_path) \o " -> "
            \o PathStr(in.local_path)

NotInitialized ==
    [success |-> FALSE,
     error |-> "SSH connection not initialized, please first use tool ssh_connect."]

InvalidDirection ==
    [success |-> FALSE, error |-> "Invalid direction. Must be \"upload\" or \"download\"."]

LocalPathMissing(in, operation) ==
    [success |-> FALSE,
     error |-> "Local path does not exist: " \o PathStr(in.local_path),
     operation |-> operation]

\* The dict run_ssh_command returns when communicate() completes.
RunCompletedMutErrorOnNonzero(in, p) ==
    IF p.returncode = 0
    THEN [success |-> TRUE, exit_code |-> p.returncode,
          stdout |-> decode(p.stdout), stderr |-> decode(p.stderr),
          command |-> in.command]
    ELSE [success |-> TRUE, exit_code |-> p.returncode,
          stdout |-> decode(p.stdout), stderr |-> decode(p.stderr),
          command |-> in.command, error |-> decode(p.stderr)]
RunCompletedMutZeroOnly(in, p) ==
    [success |-> p.returncode = 0, exit_code |-> p.returncode,
     stdout |-> decode(p.stdout), stderr |-> decode(p.stderr),
     command |-> in.command]
RunCompleted(in, p) ==
    [success |-> TRUE, exit_code |-> p.returncode,
     stdout |-> decode(p.stdout), stderr |-> decode(p.stderr),
     command |-> in.command]

RunTimeout(in) ==
    [success |-> FALSE, error |-> "timeout:(" \o ToString(in.timeout) \o "sec)",
     command |-> in.command]

RunException(in, message) ==
    [success |-> FALSE, error |-> message, command |-> in.command]

\* The dict run_scp_transfer returns when communicate() completes.
ScpCompletedMutAlways(in, operation, p) ==
    [success |-> TRUE, exit_code |-> p.returncode,
     stdout |-> decode(p.stdout), stderr |-> decode(p.stderr),
     operation |-> operation, local_path |-> in.local_path,
     remote_path |-> in.remote_path, direction |-> in.direction,
     recursive |-> in.recursive]
ScpCompleted(in, operation, p) ==
    [success |-> p.returncode = 0, exit_code |-> p.returncode,
     stdout |-> decode(p.stdout), stderr |-> decode(p.stderr),
     operation |-> operation, local_path |-> in.local_path,
     remote_path |-> in.remote_path, direction |-> in.direction,
     recursive |-> in.recursive]

ScpTimeout(in, operation) ==
    [success |-> FALSE,
     error |-> "Transfer timeout after " \o ToString(in.timeout) \o " seconds",
     operation |-> operation, local_path |-> in.local_path,
     remote_path |-> in.remote_path]

ScpExceptionMutNoPaths(in, operation, message) ==
    [success |-> FALSE, error |-> message]
ScpException(in, operation, message) ==
    [success |-> FALSE, error |-> message, operation |-> operation,
     local_path |-> in.local_path, remote_path |-> in.remote_path]

----------------------------------------------------------------------------
(* State *)

VARIABLES
    SSH_CONFIG,     \* system_manager.SSH_CONFIG
    files,          \* the paths that exist on the local filesystem
    init_result,    \* the last return value of ssh_info_init, None before the first
    pc,             \* per task: where its executor call stands
    call,           \* per task: the executor call it made and its arguments
    cmd,            \* per task: the local ssh_cmd / scp_cmd
    operation,      \* per task: the local operation of run_scp_transfer
    process,        \* per task: the external process its call spawned
    result,         \* per task: the dict its call returned
    spawned,        \* per task: how many processes its call has spawned
    lastInit,       \* history: arguments of the latest successful ssh_info_init
    atCall,         \* history, per task: SSH_CONFIG and lastInit when the call started
    slurm_config,   \* slurm_manager.slurm_config, an insertion-ordered dict
    slurm_call,     \* the last slurm tool call and its arguments
    slurm_result,   \* what the last slurm tool call returned or raised
    slurm_before    \* history: slurm_config when the last slurm tool call started

connVars == <<SSH_CONFIG, init_result, lastInit>>
taskVars == <<pc, call, cmd, operation, process, result, spawned, atCall>>
slurmVars == <<slurm_config, slurm_call, slurm_result, slurm_before>>
vars == <<connVars, files, taskVars, slurmVars>>

Idle == [op |-> "idle"]
NoProcess == [state |-> "none"]
NoResult == [pending |-> TRUE]
NoSlurmCall == [op |-> "none"]

Init ==
    /\ SSH_CONFIG = SSH_CONFIG_INITIAL
    /\ files = InitialFiles
    /\ init_result = None
    /\ pc = [t \in Tasks |-> "idle"]
    /\ call = [t \in Tasks |-> Idle]
    /\ cmd = [t \in Tasks |-> <<>>]
    /\ operation = [t \in Tasks |-> ""]
    /\ process = [t \in Tasks |-> NoProcess]
    /\ result = [t \in Tasks |-> NoResult]
    /\ spawned = [t \in Tasks |-> 0]
    /\ lastInit = None
    /\ atCall = [t \in Tasks |-> [config |-> SSH_CONFIG_INITIAL, lastInit |-> None]]
    /\ slurm_config = <<>>
    /\ slurm_call = NoSlurmCall
    /\ slurm_result = NoResult
    /\ slurm_before = <<>>

----------------------------------------------------------------------------
(* Connection configuration and the two executors *)

\* ssh_info_init(SSH_CONFIG, host, username, key_path), as called by ssh_info_init_tool.
\* It has no await: it runs to completion in one step of the event loop.
ssh_info_initMutUpdateFirst(in) ==
    LET key_full_path == expanduser(in.key_path) IN
    /\ SSH_CONFIG' = ConfigUpdate(SSH_CONFIG, in.host, in.username, in.key_path)
    /\ IF ~exists(files, key_full_path)
       THEN /\ init_result' = Some(KeyNotFoundMessage(key_full_path))
            /\ UNCHANGED lastInit
       ELSE /\ init_result' = Some(ConfirmationMessage(in.host, in.username, in.key_path))
            /\ lastInit' = Some(in)
    /\ UNCHANGED <<files, taskVars, slurmVars>>
ssh_info_init(in) ==
    LET key_full_path == expanduser(in.key_path) IN
    /\ IF ~exists(files, key_full_path)
       THEN /\ init_result' = Some(KeyNotFoundMessage(key_full_path))
            /\ UNCHANGED <<SSH_CONFIG, lastInit>>
       ELSE /\ SSH_CONFIG' = ConfigUpdate(SSH_CONFIG, in.host, in.username, in.key_path)
            /\ init_result' = Some(ConfirmationMessage(in.host, in.username, in.key_path))
            /\ lastInit' = Some(in)
    /\ UNCHANGED <<files, taskVars, slurmVars>>

\* Task t's call returns the dict r.
Return(t, r) ==
    /\ result' = [result EXCEPT ![t] = r]
    /\ pc' = [pc EXCEPT ![t] = "returned"]

\* await asyncio.create_subprocess_exec(*argv, ...) inside the try block.  The
\* event loop starts the program (subprocess.Popen) before the coroutine is
\* first suspended, so the call runs from its first line to this point in one
\* step.  Either the process is started and the call goes on to wait for it,
\* or starting it raises and the `except Exception` branch returns on_error.
create_subprocess_exec(t, argv, raises, on_error) ==
    IF raises
    THEN /\ Return(t, on_error)
         /\ UNCHANGED <<process, spawned>>
    ELSE /\ process' = [process EXCEPT ![t] = [state |-> "running", argv |-> argv]]
         /\ spawned' = [spawned EXCEPT ![t] = @ + 1]
         /\ pc' = [pc EXCEPT ![t] = "communicate"]
         /\ UNCHANGED result

\* run_ssh_command(SSH_CONFIG, command, timeout) up to its first suspension.
run_ssh_command(t, in, raises) ==
    /\ pc[t] = "idle"
    /\ call' = [call EXCEPT ![t] = [op |-> "run_ssh_command", in |-> in]]
    /\ atCall' = [atCall EXCEPT ![t] = [config |-> SSH_CONFIG, lastInit |-> lastInit]]
    /\ IF ~AllSet(SSH_CONFIG)
       THEN /\ ~raises
            /\ Return(t, NotInitialized)
            /\ UNCHANGED <<cmd, process, spawned>>
       ELSE LET ssh_cmd == SshCommand(SSH_CONFIG, in.command) IN
            /\ cmd' = [cmd EXCEPT ![t] = ssh_cmd]
            /\ create_subprocess_exec(t, ssh_cmd, raises,
                                      RunException(in, SpawnError(ssh_cmd[1])))
    /\ UNCHANGED <<connVars, files, operation, slurmVars>>

\* run_scp_transfer(SSH_CONFIG, local_path, remote_path, direction, recursive,
\* timeout) up to its first suspension.
run_scp_transferMutDirectionFirst(t, in, raises) ==
    LET local_dir == dirname(in.local_path) IN
    /\ pc[t] = "idle"
    /\ call' = [call EXCEPT ![t] = [op |-> "run_scp_transfer", in |-> in]]
    /\ atCall' = [atCall EXCEPT ![t] = [config |-> SSH_CONFIG, lastInit |-> lastInit]]
    /\ IF in.direction \notin {"upload", "download"}
       THEN /\ ~raises
            /\ Return(t, InvalidDirection)
            /\ UNCHANGED <<cmd, operation, files, process, spawned>>
       ELSE IF ~AllSet(SSH_CONFIG)
       THEN /\ ~raises
            /\ Return(t, NotInitialized)
            /\ UNCHANGED <<cmd, operation, files, process, spawned>>
       ELSE LET scp_cmd == ScpCommand(SSH_CONFIG, in)
                op == Operation(SSH_CONFIG, in) IN
            /\ cmd' = [cmd EXCEPT ![t] = scp_cmd]
            /\ operation' = [operation EXCEPT ![t] = op]
            /\ IF in.direction = "upload" /\ ~exists(files, in.local_path)
               THEN /\ ~raises
                    /\ Return(t, LocalPathMissing(in, op))
                    /\ UNCHANGED <<files, process, spawned>>
               ELSE /\ files' = IF /\ in.direction = "download"
                                   /\ local_dir # <<>>
                                   /\ ~exists(files, local_dir)
                                THEN makedirs(files, local_dir)
                                ELSE files
                    /\ create_subprocess_exec(t, scp_cmd, raises,
                            ScpException(in, op, SpawnError(scp_cmd[1])))
    /\ UNCHANGED <<connVars, slurmVars>>
run_scp_transferMutNoDirectionCheck(t, in, raises) ==
    LET local_dir == dirname(in.local_path) IN
    /\ pc[t] = "idle"
    /\ call' = [call EXCEPT ![t] = [op |-> "run_scp_transfer", in |-> in]]
    /\ atCall' = [atCall EXCEPT ![t] = [config |-> SSH_CONFIG, lastInit |-> lastInit]]
    /\ IF ~AllSet(SSH_CONFIG)
       THEN /\ ~raises
            /\ Return(t, NotInitialized)
            /\ UNCHANGED <<cmd, operation, files, process, spawned>>
       ELSE LET scp_cmd == ScpCommand(SSH_CONFIG, in)
                op == Operation(SSH_CONFIG, in) IN
            /\ cmd' = [cmd EXCEPT ![t] = scp_cmd]
            /\ operation' = [operation EXCEPT ![t] = op]
            /\ IF in.direction = "upload" /\ ~exists(files, in.local_path)
               THEN /\ ~raises
                    /\ Return(t, LocalPathMissing(in, op))
                    /\ UNCHANGED <<files, process, spawned>>
               ELSE /\ files' = IF /\ in.direction # "upload"
                                   /\ local_dir # <<>>
                                   /\ ~exists(files, local_dir)
                                THEN makedirs(files, local_dir)
                                ELSE files
                    /\ create_subprocess_exec(t, scp_cmd, raises,
                            ScpException(in, op, SpawnError(scp_cmd[1])))
    /\ UNCHANGED <<connVars, slurmVars>>
run_scp_transferMutNoLocalCheck(t, in, raises) ==
    LET local_dir == dirname(in.local_path) IN
    /\ pc[t] = "idle"
    /\ call' = [call EXCEPT ![t] = [op |-> "run_scp_transfer", in |-> in]]
    /\ atCall' = [atCall EXCEPT ![t] = [config |-> SSH_CONFIG, lastInit |-> lastInit]]
    /\ IF ~AllSet(SSH_CONFIG)
       THEN /\ ~raises
            /\ Return(t, NotInitialized)
            /\ UNCHANGED <<cmd, operation, files, process, spawned>>
       ELSE IF in.direction \notin {"upload", "download"}
       THEN /\ ~raises
            /\ Return(t, InvalidDirection)
            /\ UNCHANGED <<cmd, operation, files, process, spawned>>
       ELSE LET scp_cmd == ScpCommand(SSH_CONFIG, in)
                op == Operation(SSH_CONFIG, in) IN
            /\ cmd' = [cmd EXCEPT ![t] = scp_cmd]
            /\ operation' = [operation EXCEPT ![t] = op]
            /\ files' = IF /\ in.direction = "download"
                           /\ local_dir # <<>>
                           /\ ~exists(files, local_dir)
                        THEN makedirs(files, local_dir)
                        ELSE files
            /\ create_subprocess_exec(t, scp_cmd, raises,
                    ScpException(in, op, SpawnError(scp_cmd[1])))
    /\ UNCHANGED <<connVars, slurmVars>>
run_scp_transfer(t, in, raises) ==
    LET local_dir == dirname(in.local_path) IN
    /\ pc[t] = "idle"
    /\ call' = [call EXCEPT ![t] = [op |-> "run_scp_transfer", in |-> in]]
    /\ atCall' = [atCall EXCEPT ![t] = [config |-> SSH_CONFIG, lastInit |-> lastInit]]
    /\ IF ~AllSet(SSH_CONFIG)
       THEN /\ ~raises
            /\ Return(t, NotInitialized)
            /\ UNCHANGED <<cmd, operation, files, process, spawned>>
       ELSE IF in.direction \notin {"upload", "download"}
       THEN /\ ~raises
            /\ Return(t, InvalidDirection)
            /\ UNCHANGED <<cmd, operation, files, process, spawned>>
       ELSE LET scp_cmd == ScpCommand(SSH_CONFIG, in)
                op == Operation(SSH_CONFIG, in) IN
            /\ cmd' = [cmd EXCEPT ![t] = scp_cmd]
            /\ operation' = [operation EXCEPT ![t] = op]
            /\ IF in.direction = "upload" /\ ~exists(files, in.local_path)
               THEN /\ ~raises
                    /\ Return(t, LocalPathMissing(in, op))
                    /\ UNCHANGED <<files, process, spawned>>
               ELSE /\ files' = IF /\ in.direction = "download"
                                   /\ local_dir # <<>>
                                   /\ ~exists(files, local_dir)
                                THEN makedirs(files, local_dir)
                                ELSE files
                    /\ create_subprocess_exec(t, scp_cmd, raises,
                            ScpException(in, op, SpawnError(scp_cmd[1])))
    /\ UNCHANGED <<connVars, slurmVars>>

\* The process exits with outcome o before the timeout and
\* asyncio.wait_for(process.communicate(), timeout) returns its output: the
\* normal return of either executor.
communicate_returns(t, o) ==
    LET exited == [state |-> "exited", argv |-> process[t].argv,
                   returncode |-> o.returncode, stdout |-> o.stdout,
                   stderr |-> o.stderr] IN
    /\ pc[t] = "communicate"
    /\ process' = [process EXCEPT ![t] = exited]
    /\ Return(t, IF call[t].op = "run_ssh_command"
                 THEN RunCompleted(call[t].in, exited)
                 ELSE ScpCompleted(call[t].in, operation[t], exited))
    /\ UNCHANGED <<connVars, files, call, cmd, operation, spawned, atCall, slurmVars>>

\* The process has not exited when the timeout expires: asyncio.wait_for
\* cancels communicate() and raises TimeoutError, and the
\* `except asyncio.TimeoutError` branch returns.  Neither wait_for nor the
\* branch touches the process, which keeps running.  (What becomes of it after
\* the call has returned is not observable by the program and is left out.)
wait_for_timeoutMutKillsAll(t) ==
    /\ pc[t] = "communicate"
    /\ Return(t, IF call[t].op = "run_ssh_command"
                 THEN RunTimeout(call[t].in)
                 ELSE ScpTimeout(call[t].in, operation[t]))
    /\ process' = [u \in Tasks |->
                     IF process[u].state = "running"
                     THEN [state |-> "exited", argv |-> process[u].argv,
                           returncode |-> 137, stdout |-> <<>>, stderr |-> <<>>]
                     ELSE process[u]]
    /\ UNCHANGED <<connVars, files, call, cmd, operation, spawned, atCall, slurmVars>>
wait_for_timeoutMutRetry(t) ==
    /\ pc[t] = "communicate"
    /\ spawned[t] < 3
    /\ spawned' = [spawned EXCEPT ![t] = @ + 1]
    /\ UNCHANGED <<connVars, files, pc, call, cmd, operation, process, result, atCall,
                   slurmVars>>
wait_for_timeoutMutAwaitsExit(t) ==
    /\ pc[t] = "communicate"
    /\ process[t].state = "exited"
    /\ Return(t, IF call[t].op = "run_ssh_command"
                 THEN RunTimeout(call[t].in)
                 ELSE ScpTimeout(call[t].in, operation[t]))
    /\ UNCHANGED <<connVars, files, call, cmd, operation, process, spawned, atCall,
                   slurmVars>>
wait_for_timeoutMutDropsConnection(t) ==
    /\ pc[t] = "communicate"
    /\ Return(t, IF call[t].op = "run_ssh_command"
                 THEN RunTimeout(call[t].in)
                 ELSE ScpTimeout(call[t].in, operation[t]))
    /\ SSH_CONFIG' = SSH_CONFIG_INITIAL
    /\ UNCHANGED <<init_result, lastInit, files, call, cmd, operation, process, spawned,
                   atCall, slurmVars>>
wait_for_timeout(t) ==
    /\ pc[t] = "communicate"
    /\ Return(t, IF call[t].op = "run_ssh_command"
                 THEN RunTimeout(call[t].in)
                 ELSE ScpTimeout(call[t].in, operation[t]))
    /\ UNCHANGED <<connVars, files, call, cmd, operation, process, spawned, atCall,
                   slurmVars>>

Next ==
    \/ \E in \in InitInputs : ssh_info_init(in)
    \/ \E t \in Tasks, in \in RunInputs, raises \in BOOLEAN :
            run_ssh_command(t, in, raises)
    \/ \E t \in Tasks, in \in ScpInputs, raises \in BOOLEAN :
            run_scp_transfer(t, in, raises)
    \/ \E t \in Tasks, o \in Outcomes : communicate_returns(t, o)
    \/ \E t \in Tasks : wait_for_timeout(t)

Spec == Init /\ [][Next]_vars

\* The timer of asyncio.wait_for belongs to the event loop, not to the process:
\* once a call waits in wait_for(process.communicate(), timeout), the loop's
\* clock reaches the deadline whatever the process does, and the timeout step
\* is taken unless the process has exited first.  Nothing is assumed of the
\* process: it need never exit.
Fairness == \A t \in Tasks : WF_vars(wait_for_timeout(t))

----------------------------------------------------------------------------
(* Scheduler configuration and the submission-script generator *)

\* Largest node count a prepare call asks for.
MaxNodes == 4

\* A dict is the sequence of its <<key, value>> items in insertion order.
HasKey(d, k) == \E i \in 1..Len(d) : d[i][1] = k
Get(d, k) == d[CHOOSE i \in 1..Len(d) : d[i][1] = k][2]
Keys(d) == { d[i][1] : i \in 1..Len(d) }

\* d[k] = v: an existing key keeps its position, a new key goes to the end.
SetItemMutAppend(d, k, v) == Append(d, <<k, v>>)
SetItemMutMoveToEnd(d, k, v) ==
    Append(SelectSeq(d, LAMBDA kv : kv[1] # k), <<k, v>>)
SetItem(d, k, v) ==
    IF HasKey(d, k)
    THEN [i \in 1..Len(d) |-> IF d[i][1] = k THEN <<k, v>> ELSE d[i]]
    ELSE Append(d, <<k, v>>)

\* d.update(kwargs)
updateMutReplace(d, kwargs) == kwargs
RECURSIVE update(_, _)
update(d, kwargs) ==
    IF kwargs = <<>> THEN d
    ELSE update(SetItem(d, kwargs[1][1], kwargs[1][2]), Tail(kwargs))

\* ", ".join([f"'{key}'='{value}'" for key, value in slurm_config.items()])
RECURSIVE config_summary(_)
config_summary(d) ==
    IF d = <<>> THEN ""
    ELSE "'" \o d[1][1] \o "'='" \o d[1][2] \o "'"
         \o (IF Len(d) > 1 THEN ", " \o config_summary(Tail(d)) ELSE "")

\* What a tool function hands back: a TextContent, a one-element list holding
\* a TextContent, or an exception that leaves the function.
TextContent(text) == [raised |-> FALSE, list |-> FALSE, text |-> text]
TextContentList(text) == [raised |-> FALSE, list |-> TRUE, text |-> text]
Raised(exception, arg) == [raised |-> TRUE, exception |-> exception, arg |-> arg]

\* A time-limit string is the sequence of its ":"-separated parts
\* (time_str.split(':')), each part the sequence of its characters.
Digits == <<"0", "1", "2", "3", "4", "5", "6", "7", "8", "9">>
IsDigit(c) == \E i \in 1..10 : Digits[i] = c
DigitValue(c) == (CHOOSE i \in 1..10 : Digits[i] = c) - 1

RECURSIVE Chars(_)
Chars(cs) == IF cs = <<>> THEN "" ELSE cs[1] \o Chars(Tail(cs))

RECURSIVE TimeStr(_)
TimeStr(parts) ==
    IF parts = <<>> THEN ""
    ELSE Chars(parts[1]) \o (IF Len(parts) > 1 THEN ":" \o TimeStr(Tail(parts)) ELSE "")

\* int(part) succeeds on an optional sign followed by one or more digits.
IsInt(cs) ==
    LET ds == IF cs # <<>> /\ cs[1] \in {"+", "-"} THEN Tail(cs) ELSE cs IN
    ds # <<>> /\ \A i \in 1..Len(ds) : IsDigit(ds[i])

RECURSIVE DigitsValue(_)
DigitsValue(ds) ==
    IF ds = <<>> THEN 0
    ELSE DigitsValue(SubSeq(ds, 1, Len(ds) - 1)) * 10 + DigitValue(ds[Len(ds)])

int(cs) ==
    IF cs[1] = "-" THEN 0 - DigitsValue(Tail(cs))
    ELSE IF cs[1] = "+" THEN DigitsValue(Tail(cs))
    ELSE DigitsValue(cs)

\* Whether `h, m, s = map(int, time_str.split(':'))` raises ValueError: not
\* exactly three parts, or a part int() rejects.
ParseRaises(parts) ==
    Len(parts) # 3 \/ \E i \in 1..Len(parts) : ~IsInt(parts[i])

\* _parse_time_to_hours, in seconds: 3600 * (h + m / 60 + s / 3600), and 0 for
\* the 0.0 of the ValueError branch.
ParseTimeToSecondsMutNoMinutes(parts) ==
    IF ParseRaises(parts) THEN 0
    ELSE 3600 * int(parts[1]) + int(parts[3])
ParseTimeToSeconds(parts) ==
    IF ParseRaises(parts) THEN 0
    ELSE 3600 * int(parts[1]) + 60 * int(parts[2]) + int(parts[3])

\* node_hours = nodes * hours is a double.  When the exact product lies
\* half-way between two hundredths (nodes * seconds is 18 modulo 36) the double
\* lies just above or just below that point, and f"{node_hours:.2f}" prints
\* the hundredth on its side.  These are the <<nodes, seconds>> of the time
\* limits of this model, for up to MaxNodes + 1 nodes, whose double lies above:
\* 3 * (0 + 0 / 60 + 30 / 3600) is 0.025000000000000001387..., while
\* 1, 3 and 5 times (0 + 0 / 60 + 54 / 3600) are 0.01499999..., 0.04499999...
\* and 0.07499999....
DoubleAboveTie == { <<3, 30>> }

\* f"{node_hours:.2f}" for node_hours = nodes * hours >= 0, as a number of
\* hundredths: the hundredth nearest to the double.
Hundredths(nodes, seconds) ==
    LET n == nodes * seconds
        q == n \div 36
        r == n % 36 IN
    IF r > 18 \/ (r = 18 /\ <<nodes, seconds>> \in DoubleAboveTie) THEN q + 1 ELSE q

Format2f(h) ==
    ToString(h \div 100) \o "." \o ToString((h % 100) \div 10) \o ToString(h % 10)

DefaultsNotSetMessage ==
    "Error: Slurm defaults (account, partition) are not set. "
        \o "Please run 'set_slurm_defaults' first."

ScriptNotFoundMessage(job_script_path) ==
    "Error: The job script path '" \o PathStr(job_script_path)
        \o "' does not exist. Please provide a valid path."

\* sbatch_script of prepare_sbatch_script_perlmutter, given the three values
\* it takes from slurm_config.
SbatchScript(account, queue, constraint, in) ==
    "#!/bin/bash\n"
    \o "#SBATCH -A " \o account \o "\n"
    \o "#SBATCH -q " \o queue \o "\n"
    \o "#SBATCH -C " \o constraint \o "\n"
    \o "#SBATCH -N " \o ToString(in.nodes) \o "\n"
    \o "#SBATCH -t " \o TimeStr(in.time_limit) \o "\n"
    \o "#SBATCH --job-name=mcp_submitted_job\n\n"
    \o in.modules \o "\n\n"
    \o "echo \"--- Job started at $(date) ---\"\n\n"
    \o "# Execute the user's job script\ndate\n"
    \o "srun " \o PathStr(in.job_script_path) \o "\ndate\n\n"
    \o "echo \"--- Job finished at $(date) ---\"\n"

VerificationMessage(node_hours) ==
    "VERIFICATION REQUIRED:\n"
    \o "Please review the following sbatch script. This job will use approximately "
    \o node_hours \o " node-hours.\n"
    \o "If this looks correct, you can pass the script content to the 'submit_sbatch_script' tool."

\* The key of slurm_config the "#SBATCH -q" line reads.
QueueKey == "queue"

\* The two keys verification step 1 requires.
RequiredKeysMutAccountOnly == {"account"}
RequiredKeys == {"account", "partition"}

\* What prepare_sbatch_script_perlmutter returns or raises, from its inputs,
\* the configuration and the filesystem.
PrepareOutcomeMutCpuAlways(config, fs, in) ==
    IF \E k \in RequiredKeys : ~HasKey(config, k)
    THEN TextContentList(DefaultsNotSetMessage)
    ELSE IF ~exists(fs, in.job_script_path)
    THEN TextContentList(ScriptNotFoundMessage(in.job_script_path))
    ELSE IF ~HasKey(config, QueueKey)
    THEN Raised("KeyError", QueueKey)
    ELSE LET node_hours == Hundredths(in.nodes, ParseTimeToSeconds(in.time_limit))
             script == SbatchScript(Get(config, "account"), Get(config, QueueKey),
                            "cpu", in)
         IN  TextContent(VerificationMessage(Format2f(node_hours))
                         \o "\n'''bash\n" \o script \o "\n'''")
PrepareOutcomeMutNoScriptCheck(config, fs, in) ==
    IF \E k \in RequiredKeys : ~HasKey(config, k)
    THEN TextContentList(DefaultsNotSetMessage)
    ELSE IF ~HasKey(config, QueueKey)
    THEN Raised("KeyError", QueueKey)
    ELSE LET node_hours == Hundredths(in.nodes, ParseTimeToSeconds(in.time_limit))
             script == SbatchScript(Get(config, "account"), Get(config, QueueKey),
                            IF HasKey(config, "constraint")
                            THEN Get(config, "constraint") ELSE "cpu",
                            in)
         IN  TextContent(VerificationMessage(Format2f(node_hours))
                         \o "\n'''bash\n" \o script \o "\n'''")
PrepareOutcome(config, fs, in) ==
    IF \E k \in RequiredKeys : ~HasKey(config, k)
    THEN TextContentList(DefaultsNotSetMessage)
    ELSE IF ~exists(fs, in.job_script_path)
    THEN TextContentList(ScriptNotFoundMessage(in.job_script_path))
    ELSE IF ~HasKey(config, QueueKey)
    THEN Raised("KeyError", QueueKey)
    ELSE LET node_hours == Hundredths(in.nodes, ParseTimeToSeconds(in.time_limit))
             script == SbatchScript(Get(config, "account"), Get(config, QueueKey),
                            IF HasKey(config, "constraint")
                            THEN Get(config, "constraint") ELSE "cpu",
                            in)
         IN  TextContent(VerificationMessage(Format2f(node_hours))
                         \o "\n'''bash\n" \o script \o "\n'''")

Account1 == "m1234"
Account2 == "m4480"

SetInputs ==
    { [account |-> a, kwargs |-> kw] :
        a \in {Account1, Account2},
        kw \in { <<>>,
                 << <<"queue", "regular">> >>,
                 << <<"partition", "gpu">> >>,
                 << <<"queue", "regular">>, <<"partition", "gpu">> >>,
                 << <<"partition", "gpu">>, <<"constraint", "gpu">> >> } }

AddInputs ==
    { <<>>,
      << <<"constraint", "gpu">> >>,
      << <<"partition", "cpu">> >>,
      << <<"queue", "debug">>, <<"constraint", "cpu">> >> }

TimeLimits ==
    { << <<"0", "2">>, <<"0", "0">>, <<"0", "0">> >>,
      << <<"0", "1">>, <<"3", "0">>, <<"0", "0">> >>,
      << <<"0", "0">>, <<"0", "0">>, <<"3", "0">> >>,
      << <<"0", "0">>, <<"0", "0">>, <<"5", "4">> >>,
      << <<"a", "b", "c">> >>,
      << <<"1">>, <<"3", "0">> >>,
      << <<"1">>, <<"x">>, <<"0">> >> }

PrepareInputs ==
    { [job_script_path |-> p, modules |-> "module load espresso/7.0-libxc-5.2.2-cpu",
       nodes |-> n, time_limit |-> tl] :
        p \in {JobScript, JobScriptAbsent}, n \in 1..MaxNodes, tl \in TimeLimits }

\* The three scheduler tools are `async def` but contain no await: once the
\* event loop runs one of them it runs to its return before any other task
\* gets the loop, so each is one step.

\* set_slurm_defaults(account, **kwargs)
set_slurm_defaultsMutAwaitsAfterClear(in) ==
    /\ slurm_before' = slurm_config
    /\ slurm_config' = <<>>
    /\ slurm_call' = [op |-> "set_slurm_defaults", in |-> in]
    /\ slurm_result' = NoResult
    /\ UNCHANGED <<connVars, files, taskVars>>
set_slurm_defaultsMutNoClear(in) ==
    LET config == update(SetItem(slurm_config, "account", in.account), in.kwargs) IN
    /\ slurm_before' = slurm_config
    /\ slurm_config' = config
    /\ slurm_call' = [op |-> "set_slurm_defaults", in |-> in]
    /\ slurm_result' =
            TextContent("Slurm defaults set: " \o config_summary(config) \o ".")
    /\ UNCHANGED <<connVars, files, taskVars>>
set_slurm_defaults(in) ==
    LET config == update(SetItem(<<>>, "account", in.account), in.kwargs) IN
    /\ slurm_before' = slurm_config
    /\ slurm_config' = config
    /\ slurm_call' = [op |-> "set_slurm_defaults", in |-> in]
    /\ slurm_result' =
            TextContent("Slurm defaults set: " \o config_summary(config) \o ".")
    /\ UNCHANGED <<connVars, files, taskVars>>

\* add_slurm_defaults(**kwargs)
add_slurm_defaultsMutNoEmptyCheck(kwargs) ==
    LET config == update(slurm_config, kwargs) IN
    /\ slurm_before' = slurm_config
    /\ slurm_call' = [op |-> "add_slurm_defaults", in |-> kwargs]
    /\ slurm_config' = config
    /\ slurm_result' = TextContent(
            "Slurm defaults updated. Current config is now: "
                \o config_summary(config) \o ".")
    /\ UNCHANGED <<connVars, files, taskVars>>
add_slurm_defaultsMutReplace(kwargs) ==
    /\ slurm_before' = slurm_config
    /\ slurm_call' = [op |-> "add_slurm_defaults", in |-> kwargs]
    /\ IF kwargs = <<>>
       THEN /\ slurm_result' = TextContentList(
                    "No attributes provided to add. Please provide key-value pairs.")
            /\ UNCHANGED slurm_config
       ELSE LET config == update(<<>>, kwargs) IN
            /\ slurm_config' = config
            /\ slurm_result' = TextContent(
                    "Slurm defaults updated. Current config is now: "
                        \o config_summary(config) \o ".")
    /\ UNCHANGED <<connVars, files, taskVars>>
add_slurm_defaults(kwargs) ==
    /\ slurm_before' = slurm_config
    /\ slurm_call' = [op |-> "add_slurm_defaults", in |-> kwargs]
    /\ IF kwargs = <<>>
       THEN /\ slurm_result' = TextContentList(
                    "No attributes provided to add. Please provide key-value pairs.")
            /\ UNCHANGED slurm_config
       ELSE LET config == update(slurm_config, kwargs) IN
            /\ slurm_config' = config
            /\ slurm_result' = TextContent(
                    "Slurm defaults updated. Current config is now: "
                        \o config_summary(config) \o ".")
    /\ UNCHANGED <<connVars, files, taskVars>>

\* prepare_sbatch_script_perlmutter(job_script_path, modules, nodes, time_limit)
prepare_sbatch_script_perlmutterMutSubmits(in) ==
    /\ slurm_before' = slurm_config
    /\ slurm_call' = [op |-> "prepare_sbatch_script_perlmutter", in |-> in]
    /\ slurm_result' = PrepareOutcome(slurm_config, files, in)
    /\ spawned' = [t \in Tasks |-> spawned[t] + 1]
    /\ UNCHANGED <<slurm_config, connVars, files, pc, call, cmd, operation, process,
                   result, atCall>>
prepare_sbatch_script_perlmutter(in) ==
    /\ slurm_before' = slurm_config
    /\ slurm_call' = [op |-> "prepare_sbatch_script_perlmutter", in |-> in]
    /\ slurm_result' = PrepareOutcome(slurm_config, files, in)
    /\ UNCHANGED <<slurm_config, connVars, files, taskVars>>

NextSlurm ==
    \/ \E in \in SetInputs : set_slurm_defaults(in)
    \/ \E kwargs \in AddInputs : add_slurm_defaults(kwargs)
    \/ \E in \in PrepareInputs : prepare_sbatch_script_perlmutter(in)

SpecSlurm == Init /\ [][NextSlurm]_vars

----------------------------------------------------------------------------
(* One process, one event loop, holding both stores: the connection and    *)
(* executor tools as system_manager.py serves them (it awaits the functions *)
(* of ssh_tools.py), side by side with the scheduler operations of          *)
(* slurm_manager.py, which system_manager.py imports.  The scheduler        *)
(* operations here are slurm_manager's own, run to completion; the tools    *)
(* system_manager.py wraps around them are modelled further below.          *)

ServerInitInputs ==
    { in \in InitInputs : in.host # "" /\ exists(InitialFiles, expanduser(in.key_path)) }

ServerRunInputs == { in \in RunInputs : in.command = "ls" }

ServerScpInputs == { in \in ScpInputs : in.direction = "download" }

ServerSetInputs ==
    { in \in SetInputs : in.account = Account1 /\ Keys(in.kwargs) = {"queue", "partition"} }

ServerAddInputs == { kwargs \in AddInputs : Keys(kwargs) = {"constraint"} }

ServerPrepareInputs ==
    { in \in PrepareInputs : in.nodes = 1 /\ TimeStr(in.time_limit) = "01:30:00" }

NextServer ==
    \/ \E in \in ServerInitInputs : ssh_info_init(in)
    \/ \E t \in Tasks, in \in ServerRunInputs, raises \in BOOLEAN :
            run_ssh_command(t, in, raises)
    \/ \E t \in Tasks, in \in ServerScpInputs, raises \in BOOLEAN :
            run_scp_transfer(t, in, raises)
    \/ \E t \in Tasks, o \in Outcomes : communicate_returns(t, o)
    \/ \E t \in Tasks : wait_for_timeout(t)
    \/ \E in \in ServerSetInputs : set_slurm_defaults(in)
    \/ \E kwargs \in ServerAddInputs : add_slurm_defaults(kwargs)
    \/ \E in \in ServerPrepareInputs : prepare_sbatch_script_perlmutter(in)

SpecServer == Init /\ [][NextServer]_vars

\* The three tools that write the two configuration stores, on their own.
NextConfig ==
    \/ \E in \in InitInputs : ssh_info_init(in)
    \/ \E in \in SetInputs : set_slurm_defaults(in)
    \/ \E kwargs \in AddInputs : add_slurm_defaults(kwargs)

SpecConfig == Init /\ [][NextConfig]_vars

\* The connection tool and the two executors under the event loop's timer,
\* with one initialization that succeeds.
NextExecutors ==
    \/ \E in \in ServerInitInputs : ssh_info_init(in)
    \/ \E t \in Tasks, in \in RunInputs, raises \in BOOLEAN :
            run_ssh_command(t, in, raises)
    \/ \E t \in Tasks, in \in ScpInputs, raises \in BOOLEAN :
            run_scp_transfer(t, in, raises)
    \/ \E t \in Tasks, o \in Outcomes : communicate_returns(t, o)
    \/ \E t \in Tasks : wait_for_timeout(t)

SpecExecutors == Init /\ [][NextExecutors]_vars /\ Fairness

----------------------------------------------------------------------------
(* The tools of system_manager.py as it defines them.                       *)

\* What a call of an `async def` function returns when it is not awaited: a
\* coroutine object for that function, whose body has not run.
Coroutine(function) ==
    [raised |-> FALSE, list |-> FALSE, coroutine |-> function, awaited |-> FALSE]

\* ssh_info_init_tool, run_ssh_command_tool and run_scp_transfer_tool hand
\* SSH_CONFIG and their arguments to the functions of ssh_tools.py and return
\* (the executors: await) what these return.
ssh_info_init_tool(in) == ssh_info_init(in)
run_ssh_command_tool(t, in, raises) == run_ssh_command(t, in, raises)
run_scp_transfer_tool(t, in, raises) == run_scp_transfer(t, in, raises)

\* system_manager.set_slurm_defaults: `return slrumtool.set_slurm_defaults(
\* account, **kwargs)`.  The function called is `async def` (the decorator
\* mcp.tool() registers it and hands it back), and the call is not awaited:
\* the tool returns the coroutine object, and the body, which would write
\* slurm_config, never runs.
system_manager_set_slurm_defaults(in) ==
    /\ slurm_before' = slurm_config
    /\ slurm_call' = [op |-> "set_slurm_defaults", in |-> in]
    /\ slurm_result' = Coroutine("set_slurm_defaults")
    /\ UNCHANGED <<slurm_config, connVars, files, taskVars>>

\* system_manager.add_slurm_defaults: `return slrumtool.add_slurm_defaults(
\* **kwargs)`, not awaited either.
system_manager_add_slurm_defaults(kwargs) ==
    /\ slurm_before' = slurm_config
    /\ slurm_call' = [op |-> "add_slurm_defaults", in |-> kwargs]
    /\ slurm_result' = Coroutine("add_slurm_defaults")
    /\ UNCHANGED <<slurm_config, connVars, files, taskVars>>

\* system_manager.prepare_sbatch_script_perlmutter: `return
\* slrumtool.prepare_sbatch_script(job_script_path, modules, nodes,
\* time_limit)`.  slurm_manager.py defines no prepare_sbatch_script: looking
\* the attribute up raises AttributeError before anything is called.
system_manager_prepare_sbatch_script_perlmutter(in) ==
    /\ slurm_before' = slurm_config
    /\ slurm_call' = [op |-> "prepare_sbatch_script_perlmutter", in |-> in]
    /\ slurm_result' = Raised("AttributeError",
            "module 'cmsagent.tools.slurm_manager' has no attribute 'prepare_sbatch_script'")
    /\ UNCHANGED <<slurm_config, connVars, files, taskVars>>

NextTools ==
    \/ \E in \in ServerInitInputs : ssh_info_init_tool(in)
    \/ \E t \in Tasks, in \in ServerRunInputs, raises \in BOOLEAN :
            run_ssh_command_tool(t, in, raises)
    \/ \E t \in Tasks, in \in ServerScpInputs, raises \in BOOLEAN :
            run_scp_transfer_tool(t, in, raises)
    \/ \E t \in Tasks, o \in Outcomes : communicate_returns(t, o)
    \/ \E t \in Tasks : wait_for_timeout(t)
    \/ \E in \in SetInputs : system_manager_set_slurm_defaults(in)
    \/ \E kwargs \in AddInputs : system_manager_add_slurm_defaults(kwargs)
    \/ \E in \in ServerPrepareInputs :
            system_manager_prepare_sbatch_script_perlmutter(in)

SpecTools == Init /\ [][NextTools]_vars

----------------------------------------------------------------------------
(* src/ssh.py: the stand-alone "ssh-remote-executor" server, an earlier copy *)
(* of the connection configuration and of the command executor.  Its module  *)
(* global ssh_config is the variable SSH_CONFIG here.                        *)

\* ssh_cmd of run_ssh_command in src/ssh.py: the command goes out as given.
ssh_py_ssh_cmd(cfg, command) ==
    << "ssh", "-l", cfg.username[1], "-i", PathStr(expanduser(cfg.key_path[1])),
       "-o", "StrictHostKeyChecking=no", "-o", "ConnectTimeout=10",
       cfg.host[1], command >>

\* ssh_connect(host, username, key_path) of src/ssh.py: the body of ssh_info_init.
ssh_connect(in) == ssh_info_init(in)

\* run_ssh_command(command, timeout) of src/ssh.py up to its first suspension.
ssh_py_run_ssh_command(t, in, raises) ==
    /\ pc[t] = "idle"
    /\ call' = [call EXCEPT ![t] = [op |-> "run_ssh_command", in |-> in]]
    /\ atCall' = [atCall EXCEPT ![t] = [config |-> SSH_CONFIG, lastInit |-> lastInit]]
    /\ IF ~AllSet(SSH_CONFIG)
       THEN /\ ~raises
            /\ Return(t, NotInitialized)
            /\ UNCHANGED <<cmd, process, spawned>>
       ELSE LET ssh_cmd == ssh_py_ssh_cmd(SSH_CONFIG, in.command) IN
            /\ cmd' = [cmd EXCEPT ![t] = ssh_cmd]
            /\ create_subprocess_exec(t, ssh_cmd, raises,
                                      RunException(in, SpawnError(ssh_cmd[1])))
    /\ UNCHANGED <<connVars, files, operation, slurmVars>>

NextSshPy ==
    \/ \E in \in InitInputs : ssh_connect(in)
    \/ \E t \in Tasks, in \in RunInputs, raises \in BOOLEAN :
            ssh_py_run_ssh_command(t, in, raises)
    \/ \E t \in Tasks, o \in Outcomes : communicate_returns(t, o)
    \/ \E t \in Tasks : wait_for_timeout(t)

SpecSshPy == Init /\ [][NextSshPy]_vars

----------------------------------------------------------------------------
(* Properties *)

Called(t) == call[t].op # "idle"
IsRun(t) == call[t].op = "run_ssh_command"
IsScp(t) == call[t].op = "run_scp_transfer"
Returned(t) == pc[t] = "returned"
IsPrepare == slurm_call.op = "prepare_sbatch_script_perlmutter"

\* The configuration a successful ssh_info_init(in) is to leave behind.
ConfigOf(in) ==
    [host |-> Some(in.host), username |-> Some(in.username),
     key_path |-> Some(in.key_path)]

NonNull(cfg) == cfg.host # None /\ cfg.username # None /\ cfg.key_path # None

NonEmpty(cfg) ==
    /\ NonNull(cfg)
    /\ cfg.host[1] # "" /\ cfg.username[1] # "" /\ cfg.key_path[1] # <<>>

\* Task t's call returned the timeout dict of its executor.
TimedOut(t) ==
    /\ Returned(t)
    /\ "error" \in DOMAIN result[t]
    /\ \/ IsRun(t)
          /\ result[t].error = "timeout:(" \o ToString(call[t].in.timeout) \o "sec)"
       \/ IsScp(t)
          /\ result[t].error =
                "Transfer timeout after " \o ToString(call[t].in.timeout) \o " seconds"

\* C1: a run or transfer call made before any successful initialize returns the
\* NotInitialized failure (success false, with an error) and spawns no process.
C1_NotInitializedNoSpawn ==
    \A t \in Tasks :
        (Called(t) /\ atCall[t].lastInit = None) =>
            /\ Returned(t)
            /\ result[t].success = FALSE
            /\ result[t].error =
                 "SSH connection not initialized, please first use tool ssh_connect."
            /\ process[t] = NoProcess
            /\ spawned[t] = 0

\* C1 witness: a run call and a transfer call, both made before any initialize,
\* have returned NotInitialized.
C1_Witness ==
    \E t, u \in Tasks :
        /\ IsRun(t) /\ IsScp(u)
        /\ atCall[t].lastInit = None /\ atCall[u].lastInit = None
        /\ result[t] = NotInitialized /\ result[u] = NotInitialized

\* C2: when a call returns the Timeout result, the process it spawned has been
\* terminated: it is no longer running in that state.
C2_TimeoutTerminatesProcess ==
    \A t \in Tasks : TimedOut(t) => process[t].state # "running"

\* C3: ssh_info_init with a key path whose expanded file does not exist returns
\* the KeyNotFound error and leaves host, username and key_path as they were.
C3_KeyNotFoundKeepsConfig ==
    [][\A in \in InitInputs :
          (ssh_info_init(in) /\ ~exists(files, expanduser(in.key_path))) =>
              /\ SSH_CONFIG' = SSH_CONFIG
              /\ init_result' = Some("Error: SSH private key "
                                      \o PathStr(expanduser(in.key_path))
                                      \o " does not exist. Please check the path.")]_vars

\* C3 witness: the last initialize failed with KeyNotFound while the store
\* holds an earlier successful configuration, and a later run call used it.
C3_Witness ==
    /\ init_result =
         Some("Error: SSH private key /home/ada/.ssh/missing does not exist. Please check the path.")
    /\ lastInit # None
    /\ SSH_CONFIG = ConfigOf(lastInit[1])
    /\ \E t \in Tasks : IsRun(t) /\ process[t].state = "running"

\* C4: with account and partition both in the scheduler configuration and an
\* existing job script, prepare returns the verification message with the
\* rendered script and raises nothing.
C4_PrepareNeverRaises ==
    ( /\ IsPrepare
      /\ HasKey(slurm_config, "account") /\ HasKey(slurm_config, "partition")
      /\ exists(files, slurm_call.in.job_script_path) ) =>
        /\ ~slurm_result.raised
        /\ ~slurm_result.list

\* C5: prepare returns DefaultsNotSet whenever account or partition is missing
\* from the scheduler configuration, whether or not the job script exists.
C5_DefaultsNotSetFirst ==
    ( /\ IsPrepare
      /\ ~(HasKey(slurm_config, "account") /\ HasKey(slurm_config, "partition")) ) =>
        slurm_result = TextContentList(DefaultsNotSetMessage)

\* C5 witness: prepare was called with a job script that does not exist and a
\* configuration holding account but no partition, and DefaultsNotSet came back.
C5_Witness ==
    /\ IsPrepare
    /\ HasKey(slurm_config, "account") /\ ~HasKey(slurm_config, "partition")
    /\ ~exists(files, slurm_call.in.job_script_path)
    /\ slurm_result = TextContentList(DefaultsNotSetMessage)

\* The process of task t targets exactly the host, user and key of initialize
\* call `in`.
TargetIs(t, in) ==
    LET argv == process[t].argv
        key == PathStr(expanduser(in.key_path))
        remote == in.username \o "@" \o in.host \o ":"
                    \o PathStr(call[t].in.remote_path) IN
    IF IsRun(t)
    THEN argv[3] = in.username /\ argv[5] = key /\ argv[10] = in.host
    ELSE /\ argv[3] = key
         /\ IF call[t].in.direction = "upload"
            THEN argv[Len(argv)] = remote
            ELSE argv[Len(argv) - 1] = remote

\* C6: the host, username and key path in the argument list of every spawned
\* process are those of the one successful initialize that was the latest when
\* the call started, whatever initialize calls happen afterwards.
C6_TargetFromOneInitialize ==
    \A t \in Tasks :
        process[t].state # "none" =>
            /\ atCall[t].lastInit # None
            /\ TargetIs(t, atCall[t].lastInit[1])
            /\ process[t].argv = cmd[t]

\* C6 witness: two processes are running for different targets, and the store
\* has since been re-initialized to a configuration differing from one of them.
C6_Witness ==
    \E t, u \in Tasks :
        /\ process[t].state = "running" /\ process[u].state = "running"
        /\ IsRun(t) /\ IsScp(u)
        /\ atCall[t].lastInit # atCall[u].lastInit
        /\ lastInit # atCall[u].lastInit

\* C7: the three stored fields are all unset, or all set to the values of one
\* single successful initialize call (the latest).
C7_ConfigAllOrNothing ==
    IF lastInit = None
    THEN SSH_CONFIG = [host |-> None, username |-> None, key_path |-> None]
    ELSE SSH_CONFIG = ConfigOf(lastInit[1])

\* C7 witness: after a successful initialize another initialize failed, and the
\* store holds the values of the successful one.
C7_Witness ==
    /\ lastInit # None
    /\ lastInit[1].host = "login.hpc.org"
    /\ SSH_CONFIG = ConfigOf(lastInit[1])
    /\ init_result # None
    /\ init_result # Some("SSH configuration: bob@login.hpc.org (key: /keys/id_rsa)")

C9_RunCompletedIsSuccess ==
    \A t \in Tasks :
        (IsRun(t) /\ process[t].state = "exited") =>
            /\ Returned(t)
            /\ result[t].success = TRUE
            /\ result[t].exit_code = process[t].returncode
            /\ result[t].stdout = decode(process[t].stdout)
            /\ result[t].stderr = decode(process[t].stderr)
            /\ result[t].command = call[t].in.command
            /\ "error" \notin DOMAIN result[t]

\* C9 witness: a run call whose process exited with code 2 returned success
\* with that code and the stderr bytes decoded, the bad byte replaced.
C9_Witness ==
    \E t \in Tasks :
        /\ IsRun(t) /\ process[t].state = "exited" /\ process[t].returncode = 2
        /\ result[t].success = TRUE /\ result[t].exit_code = 2
        /\ result[t].stderr = <<233, 65533, 33>>
        /\ result[t].command = "sleep 60"

\* C10: when the process of a transfer call exits before the timeout, success
\* is true exactly if the exit code is 0, and the result carries the exit code,
\* operation, local path, remote path, direction and recursive flag.
C10_ScpSuccessIffExitZero ==
    \A t \in Tasks :
        (IsScp(t) /\ process[t].state = "exited") =>
            /\ Returned(t)
            /\ result[t].success = (process[t].returncode = 0)
            /\ result[t].exit_code = process[t].returncode
            /\ result[t].operation = operation[t]
            /\ result[t].local_path = call[t].in.local_path
            /\ result[t].remote_path = call[t].in.remote_path
            /\ result[t].direction = call[t].in.direction
            /\ result[t].recursive = call[t].in.recursive

\* C10 witness: one transfer whose process exited with code 2 reports failure
\* and another whose process exited with code 0 reports success.
C10_Witness ==
    \E t, u \in Tasks :
        /\ IsScp(t) /\ process[t].state = "exited" /\ process[t].returncode = 2
        /\ result[t].success = FALSE
        /\ IsScp(u) /\ process[u].state = "exited" /\ process[u].returncode = 0
        /\ result[u].success = TRUE
        /\ result[u].operation =
             "Download ada@perlmutter.nersc.gov:/global/cfs/scf.in -> /work/out/run1/scf.out"

\* C11: with the connection initialized, an upload whose local path does not
\* exist returns success false with an error naming that path, and no scp
\* process is spawned for it.
C11_UploadMissingNoSpawn ==
    \A t \in Tasks :
        ( /\ IsScp(t) /\ NonEmpty(atCall[t].config)
          /\ call[t].in.direction = "upload"
          /\ call[t].in.local_path \notin files ) =>
            /\ Returned(t)
            /\ result[t].success = FALSE
            /\ result[t].error =
                 "Local path does not exist: " \o PathStr(call[t].in.local_path)
            /\ process[t] = NoProcess
            /\ spawned[t] = 0

\* C11 witness: an upload of the absent /work/absent.in, made with the
\* connection initialized, has returned the failure and spawned nothing.
C11_Witness ==
    \E t \in Tasks :
        /\ IsScp(t) /\ NonEmpty(atCall[t].config)
        /\ call[t].in.direction = "upload" /\ call[t].in.local_path = LocalAbsent
        /\ LocalAbsent \notin files
        /\ result[t].success = FALSE
        /\ result[t].error = "Local path does not exist: /work/absent.in"
        /\ spawned[t] = 0

\* C12: with the connection initialized, whenever a download has spawned its
\* scp process the directory of its local path exists together with all its
\* parent directories, and when that process exits with code 0 the result has
\* success true.
C12_DownloadCreatesDirFirst ==
    \A t \in Tasks :
        ( /\ IsScp(t) /\ NonEmpty(atCall[t].config)
          /\ call[t].in.direction = "download"
          /\ process[t].state # "none" ) =>
            /\ \A n \in 2..(Len(call[t].in.local_path) - 1) :
                    SubSeq(call[t].in.local_path, 1, n) \in files
            /\ (process[t].state = "exited" /\ process[t].returncode = 0) =>
                    (Returned(t) /\ result[t].success = TRUE)

\* C12 witness: /work/out/run1 was not there at the start; a download into it
\* has created /work/out and /work/out/run1, its scp process exited with
\* code 0 and the call reported success.
C12_Witness ==
    \E t \in Tasks :
        /\ IsScp(t) /\ call[t].in.direction = "download"
        /\ call[t].in.local_path = LocalDownload
        /\ dirname(LocalDownload) \notin InitialFiles
        /\ <<"", "work", "out">> \in files
        /\ <<"", "work", "out", "run1">> \in files
        /\ process[t].state = "exited" /\ process[t].returncode = 0
        /\ result[t].success = TRUE

\* The failure dict of task t carries the caller's original input: the command
\* of a run call, the local and remote paths of a transfer call.
CarriesInput(t) ==
    IF IsRun(t)
    THEN /\ "command" \in DOMAIN result[t]
         /\ result[t].command = call[t].in.command
    ELSE /\ {"local_path", "remote_path"} \subseteq DOMAIN result[t]
         /\ result[t].local_path = call[t].in.local_path
         /\ result[t].remote_path = call[t].in.remote_path

\* C13: every failure result of a run or transfer call (NotInitialized,
\* InvalidDirection, LocalPathMissing, Timeout, SpawnFailure) includes the
\* caller's original input.
C13_FailureCarriesInput ==
    \A t \in Tasks :
        (Returned(t) /\ result[t].success = FALSE) => CarriesInput(t)

IsSet == slurm_call.op = "set_slurm_defaults"
IsAdd == slurm_call.op = "add_slurm_defaults"

\* C15: after set_slurm_defaults(account, **kwargs) the keys of the scheduler
\* configuration are exactly account and the keys of kwargs, whatever it held
\* before: a key that only earlier calls had set is gone.
C15_SetDefaultsExactKeys ==
    IsSet =>
        /\ Keys(slurm_config) = {"account"} \cup Keys(slurm_call.in.kwargs)
        /\ Get(slurm_config, "account") = slurm_call.in.account
        /\ \A k \in Keys(slurm_before) \ ({"account"} \cup Keys(slurm_call.in.kwargs)) :
                ~HasKey(slurm_config, k)

\* C15 witness: the configuration held queue and constraint before the call,
\* set_slurm_defaults(account, partition) was called, and both are absent.
C15_Witness ==
    /\ IsSet
    /\ Keys(slurm_call.in.kwargs) = {"partition"}
    /\ {"queue", "constraint"} \subseteq Keys(slurm_before)
    /\ Keys(slurm_config) = {"account", "partition"}

\* C16: add_slurm_defaults with non-empty kwargs leaves every key that is not
\* in kwargs with the value it had, sets every key of kwargs to its new value,
\* and returns the summary of the whole resulting configuration.
C16_AddDefaultsFrame ==
    (IsAdd /\ slurm_call.in # <<>>) =>
        /\ Keys(slurm_config) = Keys(slurm_before) \cup Keys(slurm_call.in)
        /\ \A k \in Keys(slurm_before) \ Keys(slurm_call.in) :
                Get(slurm_config, k) = Get(slurm_before, k)
        /\ \A i \in 1..Len(slurm_call.in) :
                Get(slurm_config, slurm_call.in[i][1]) = slurm_call.in[i][2]
        /\ slurm_result.text =
                "Slurm defaults updated. Current config is now: "
                    \o config_summary(slurm_config) \o "."

\* C16 witness: set_slurm_defaults(account="m1234", queue="regular") followed
\* by add_slurm_defaults(constraint="gpu") has returned a summary with all
\* three keys, account and queue as they were.
C16_Witness ==
    /\ IsAdd
    /\ slurm_call.in = << <<"constraint", "gpu">> >>
    /\ slurm_before = << <<"account", "m1234">>, <<"queue", "regular">> >>
    /\ slurm_result.text =
            "Slurm defaults updated. Current config is now: "
                \o "'account'='m1234', 'queue'='regular', 'constraint'='gpu'."

\* C17: add_slurm_defaults with empty kwargs returns the no-op message and
\* leaves the scheduler configuration as it was.
C17_AddNothingIsNoOp ==
    (IsAdd /\ slurm_call.in = <<>>) =>
        /\ slurm_config = slurm_before
        /\ slurm_result.text =
                "No attributes provided to add. Please provide key-value pairs."

\* C17 witness: add_slurm_defaults() was called on a configuration of three
\* keys, which is unchanged, and the no-op message came back.
C17_Witness ==
    /\ IsAdd /\ slurm_call.in = <<>>
    /\ Len(slurm_before) = 3
    /\ slurm_config = slurm_before
    /\ slurm_result.text =
            "No attributes provided to add. Please provide key-value pairs."

\* C18: with account and partition in the scheduler configuration and a job
\* script path that does not exist, prepare returns the ScriptNotFound error
\* naming that path and nothing else: no script.
C18_ScriptNotFound ==
    ( /\ IsPrepare
      /\ HasKey(slurm_config, "account") /\ HasKey(slurm_config, "partition")
      /\ slurm_call.in.job_script_path \notin files ) =>
        /\ ~slurm_result.raised
        /\ slurm_result.text =
                "Error: The job script path '"
                    \o PathStr(slurm_call.in.job_script_path)
                    \o "' does not exist. Please provide a valid path."

\* C18 witness: prepare was called for the absent /work/nojob.sh with account,
\* partition and queue configured, and the error names /work/nojob.sh.
C18_Witness ==
    /\ IsPrepare
    /\ {"account", "partition", "queue"} \subseteq Keys(slurm_config)
    /\ slurm_call.in.job_script_path = JobScriptAbsent
    /\ JobScriptAbsent \notin files
    /\ slurm_result.text =
            "Error: The job script path '/work/nojob.sh' does not exist. "
                \o "Please provide a valid path."

\* The text prepare is to return for the last call when it reports the
\* node-hours string node_hours.
ReportOf(node_hours) ==
    VerificationMessage(node_hours) \o "\n'''bash\n"
        \o SbatchScript(Get(slurm_config, "account"), Get(slurm_config, "queue"),
                        IF HasKey(slurm_config, "constraint")
                        THEN Get(slurm_config, "constraint") ELSE "cpu",
                        slurm_call.in)
        \o "\n'''"

\* Prepare returned its verification message and script.
Reported == IsPrepare /\ ~slurm_result.raised /\ ~slurm_result.list

\* C19: for a time limit H:M:S of three integers, the node-hours prepare
\* reports are nodes * (H + M/60 + S/3600) with two decimals: a number of
\* hundredths no further than half a hundredth from that product.
C19_NodeHoursTwoDecimals ==
    (Reported /\ ~ParseRaises(slurm_call.in.time_limit)) =>
        LET tl == slurm_call.in.time_limit
            n == slurm_call.in.nodes
                    * (3600 * int(tl[1]) + 60 * int(tl[2]) + int(tl[3]))
        IN  \E v \in 0..(n \div 36 + 1) :
                /\ (36 * v - n) \in -18..18
                /\ slurm_result.text = ReportOf(Format2f(v))

\* C19 witness: prepare with nodes=4 and time limit "02:00:00" has reported
\* 8.00 node-hours.
C19_Witness ==
    /\ Reported
    /\ slurm_call.in.nodes = 4
    /\ TimeStr(slurm_call.in.time_limit) = "02:00:00"
    /\ slurm_result.text = ReportOf("8.00")

\* C20: for a time limit that is not three colon-separated integers, prepare
\* with account and partition configured and an existing job script succeeds:
\* it returns the script with node-hours 0.0 (printed 0.00).
C20_MalformedTimeStillSucceeds ==
    ( /\ IsPrepare
      /\ HasKey(slurm_config, "account") /\ HasKey(slurm_config, "partition")
      /\ slurm_call.in.job_script_path \in files
      /\ ParseRaises(slurm_call.in.time_limit) ) =>
        /\ ~slurm_result.raised
        /\ ~slurm_result.list
        /\ slurm_result.text = ReportOf("0.00")

\* C21: prepare never submits the job: whatever it returns, the step spawns no
\* process, starts or ends no executor call, and leaves the scheduler
\* configuration, the connection configuration and the filesystem as they were.
C21_PrepareNeverSubmits ==
    [][\A in \in PrepareInputs :
          prepare_sbatch_script_perlmutter(in) =>
              /\ UNCHANGED <<process, spawned, pc, call, cmd, result>>
              /\ slurm_config' = slurm_config
              /\ SSH_CONFIG' = SSH_CONFIG
              /\ files' = files]_vars

\* C21 witness: prepare has returned its script while the connection is
\* initialized and one executor call is waiting for its process: the only
\* process is that call's, and the scheduler configuration is as before.
C21_Witness ==
    /\ Reported
    /\ slurm_config = slurm_before
    /\ SSH_CONFIG # SSH_CONFIG_INITIAL
    /\ \E t \in Tasks : process[t].state = "running" /\ pc[t] = "communicate"
    /\ \A t \in Tasks : spawned[t] = IF process[t].state = "none" THEN 0 ELSE 1

\* C22: the executors do not retry: a run or transfer call spawns at most one
\* process, whether that process exits with a nonzero code, the call times
\* out, or the process cannot be started.
C22_AtMostOneProcess ==
    \A t \in Tasks :
        /\ spawned[t] <= 1
        /\ (spawned[t] = 0) <=> (process[t] = NoProcess)

\* C22 witness: one call's process exited with code 2 and another call timed
\* out, and each of them spawned exactly one process.
C22_Witness ==
    \E t, u \in Tasks :
        /\ Returned(t) /\ process[t].state = "exited" /\ process[t].returncode = 2
        /\ spawned[t] = 1
        /\ TimedOut(u) /\ spawned[u] = 1

\* The last ssh_info_init call was made with the arguments `in`: its return
\* value, which names them, is the one held.
LastInitWas(in) ==
    init_result \in
        { Some("SSH configuration: " \o in.username \o "@" \o in.host
                    \o " (key: " \o PathStr(in.key_path) \o ")"),
          Some("Error: SSH private key " \o PathStr(expanduser(in.key_path))
                    \o " does not exist. Please check the path.") }

\* C23: repeating a configuration call changes nothing: when ssh_info_init,
\* set_slurm_defaults or add_slurm_defaults is called again with the arguments
\* of the call before it, the stores are left as the first call left them and
\* the same value is returned.
C23_RepeatedCallIdempotent ==
    [][/\ \A in \in InitInputs :
            ( /\ LastInitWas(in)
              /\ slurm_call'.op = slurm_call.op /\ ssh_info_init(in) ) =>
                (SSH_CONFIG' = SSH_CONFIG /\ init_result' = init_result)
       /\ \A in \in SetInputs :
            ( /\ IsSet /\ slurm_call.in = in
              /\ slurm_call'.op = "set_slurm_defaults" /\ set_slurm_defaults(in) ) =>
                (slurm_config' = slurm_config /\ slurm_result' = slurm_result)
       /\ \A kwargs \in AddInputs :
            ( /\ IsAdd /\ slurm_call.in = kwargs
              /\ slurm_call'.op = "add_slurm_defaults" /\ add_slurm_defaults(kwargs) ) =>
                (slurm_config' = slurm_config /\ slurm_result' = slurm_result)]_vars

\* C23 witness: add_slurm_defaults(constraint="gpu") has been called on a
\* configuration that an earlier add_slurm_defaults(constraint="gpu") had
\* produced; the configuration is unchanged and the summary is that of three
\* keys.
C23_Witness ==
    /\ IsAdd /\ slurm_call.in = << <<"constraint", "gpu">> >>
    /\ slurm_before =
         << <<"account", "m1234">>, <<"queue", "regular">>, <<"partition", "gpu">>,
            <<"constraint", "gpu">> >>
    /\ slurm_config = slurm_before
    /\ slurm_result.text =
         "Slurm defaults updated. Current config is now: "
            \o "'account'='m1234', 'queue'='regular', 'partition'='gpu', 'constraint'='gpu'."
    /\ init_result = Some("SSH configuration: bob@login.hpc.org (key: /keys/id_rsa)")
    /\ SSH_CONFIG = ConfigOf(lastInit[1])

\* C24: calls in flight are independent: when one call returns, by the exit of
\* its process or by its timeout, every other call keeps its process, its
\* position and its result.
C24_CallsIndependent ==
    [][\A t, u \in Tasks :
          (t # u /\ pc[t] = "communicate" /\ pc'[t] = "returned") =>
              /\ process'[u] = process[u]
              /\ pc'[u] = pc[u]
              /\ result'[u] = result[u]]_vars

\* C24 witness: a call is still waiting for its running process although,
\* since it started, the connection was initialized again, the scheduler
\* defaults were set, and another call, that had its own process, has
\* completed.
C24_Witness ==
    \E t, u \in Tasks :
        /\ t # u
        /\ pc[t] = "communicate" /\ process[t].state = "running"
        /\ result[t] = NoResult
        /\ lastInit # atCall[t].lastInit
        /\ IsSet
        /\ Returned(u) /\ process[u].state = "exited"
        /\ process[u].argv # process[t].argv
        /\ result[u].success = TRUE

\* C25: every process spawned by a run call is the ssh client with -l and the
\* stored username, -i and the expanded stored key path, the two -o options,
\* the stored host, and the caller's command followed by "; exit".
C25_SshArgv ==
    \A t \in Tasks :
        (IsRun(t) /\ process[t].state # "none") =>
            process[t].argv =
                << "ssh", "-l", atCall[t].config.username[1],
                   "-i", PathStr(expanduser(atCall[t].config.key_path[1])),
                   "-o", "StrictHostKeyChecking=no", "-o", "ConnectTimeout=10",
                   atCall[t].config.host[1], call[t].in.command \o "; exit" >>

\* C26: every process spawned by a transfer call is the scp client with -i and
\* the expanded stored key path, -r exactly when recursive is true, and then
\* source and destination: the local path and user@host:remote_path for an
\* upload, user@host:remote_path and the local path for a download, with user
\* and host those stored.
C26_ScpArgv ==
    \A t \in Tasks :
        (IsScp(t) /\ process[t].state # "none") =>
            LET cfg == atCall[t].config
                in == call[t].in
                remote == cfg.username[1] \o "@" \o cfg.host[1] \o ":"
                            \o PathStr(in.remote_path)
                local == PathStr(in.local_path)
            IN  process[t].argv =
                    << "scp", "-i", PathStr(expanduser(cfg.key_path[1])),
                       "-o", "StrictHostKeyChecking=no", "-o", "ConnectTimeout=10" >>
                    \o (IF in.recursive THEN << "-r" >> ELSE << >>)
                    \o (IF in.direction = "upload" THEN << local, remote >>
                        ELSE << remote, local >>)

\* C26 witness: a recursive download and a plain upload are both running, the
\* first with -r and the remote side first, the second without -r and the
\* local side first.
C26_Witness ==
    \E t, u \in Tasks :
        /\ process[t].state = "running" /\ process[u].state = "running"
        /\ process[t].argv =
             << "scp", "-i", "/keys/id_rsa", "-o", "StrictHostKeyChecking=no",
                "-o", "ConnectTimeout=10", "-r",
                "bob@login.hpc.org:/global/cfs/scf.in", "/work/out/run1/scf.out" >>
        /\ process[u].argv =
             << "scp", "-i", "/home/ada/.ssh/nersc", "-o", "StrictHostKeyChecking=no",
                "-o", "ConnectTimeout=10",
                "/work/scf.in", "ada@perlmutter.nersc.gov:/global/cfs/scf.in" >>

\* C27: the summary of set_slurm_defaults and add_slurm_defaults lists the
\* pairs of the resulting configuration in insertion order.  After
\* set_slurm_defaults that is account and then kwargs in order; after
\* add_slurm_defaults every earlier key is where it was, with its new value if
\* kwargs names it, and the new keys follow in the order of kwargs.
C27_SummaryInsertionOrder ==
    /\ IsSet =>
        /\ slurm_config =
             << <<"account", slurm_call.in.account>> >> \o slurm_call.in.kwargs
        /\ slurm_result.text =
             "Slurm defaults set: " \o config_summary(slurm_config) \o "."
    /\ (IsAdd /\ slurm_call.in # <<>>) =>
        LET kwargs == slurm_call.in
            kept == [i \in 1..Len(slurm_before) |->
                        IF \E j \in 1..Len(kwargs) : kwargs[j][1] = slurm_before[i][1]
                        THEN CHOOSE kv \in {kwargs[j] : j \in 1..Len(kwargs)} :
                                kv[1] = slurm_before[i][1]
                        ELSE slurm_before[i]]
            added == SelectSeq(kwargs,
                        LAMBDA kv : \A i \in 1..Len(slurm_before) :
                                        slurm_before[i][1] # kv[1])
        IN  /\ slurm_config = kept \o added
            /\ slurm_result.text =
                 "Slurm defaults updated. Current config is now: "
                    \o config_summary(slurm_config) \o "."

\* C27 witness: add_slurm_defaults(queue="debug", constraint="cpu") on account,
\* partition, constraint has overwritten constraint where it stood and put
\* queue at the end of the summary.
C27_Witness ==
    /\ IsAdd
    /\ slurm_call.in = << <<"queue", "debug">>, <<"constraint", "cpu">> >>
    /\ slurm_before =
         << <<"account", "m4480">>, <<"partition", "gpu">>, <<"constraint", "gpu">> >>
    /\ slurm_result.text =
         "Slurm defaults updated. Current config is now: "
            \o "'account'='m4480', 'partition'='gpu', 'constraint'='cpu', 'queue'='debug'."

\* C28: in the script of a successful prepare the -C directive carries the
\* configuration's constraint when that key is set and "cpu" otherwise, the -A
\* directive carries the configuration's account, and the -N and -t directives
\* carry the nodes and the time limit of the request as given.
C28_ScriptDirectives ==
    Reported =>
        LET in == slurm_call.in
            constraint == IF \E i \in 1..Len(slurm_config) :
                                slurm_config[i][1] = "constraint"
                          THEN Get(slurm_config, "constraint") ELSE "cpu"
            script ==
                "#!/bin/bash\n"
                \o "#SBATCH -A " \o Get(slurm_config, "account") \o "\n"
                \o "#SBATCH -q " \o Get(slurm_config, "queue") \o "\n"
                \o "#SBATCH -C " \o constraint \o "\n"
                \o "#SBATCH -N " \o ToString(in.nodes) \o "\n"
                \o "#SBATCH -t " \o TimeStr(in.time_limit) \o "\n"
                \o "#SBATCH --job-name=mcp_submitted_job\n\n"
                \o in.modules \o "\n\n"
                \o "echo \"--- Job started at $(date) ---\"\n\n"
                \o "# Execute the user's job script\ndate\n"
                \o "srun " \o PathStr(in.job_script_path) \o "\ndate\n\n"
                \o "echo \"--- Job finished at $(date) ---\"\n"
        IN  slurm_result.text =
                VerificationMessage(
                    Format2f(Hundredths(in.nodes, ParseTimeToSeconds(in.time_limit))))
                \o "\n'''bash\n" \o script \o "\n'''"

\* C28 witness: prepare for 3 nodes and the time limit "1:x:0" has succeeded on
\* a configuration without constraint: the script has -C cpu, and its -t line
\* holds 1:x:0 as given.
C28_Witness ==
    /\ Reported
    /\ ~HasKey(slurm_config, "constraint")
    /\ slurm_call.in.nodes = 3
    /\ TimeStr(slurm_call.in.time_limit) = "1:x:0"
    /\ slurm_result.text =
         VerificationMessage("0.00") \o "\n'''bash\n"
            \o SbatchScript("m1234", "regular", "cpu", slurm_call.in) \o "\n'''"

\* C29: with the connection initialized, a transfer whose direction is neither
\* "upload" nor "download" returns the InvalidDirection failure as data
\* (success false with the error), spawns no process and does not create the
\* directory of its local path.
C29_InvalidDirection ==
    \A t \in Tasks :
        ( /\ IsScp(t) /\ NonEmpty(atCall[t].config)
          /\ call[t].in.direction \notin {"upload", "download"} ) =>
            /\ Returned(t)
            /\ result[t].success = FALSE
            /\ result[t].error = "Invalid direction. Must be \"upload\" or \"download\"."
            /\ process[t] = NoProcess
            /\ spawned[t] = 0
            /\ SubSeq(call[t].in.local_path, 1, Len(call[t].in.local_path) - 1)
                    \notin files

\* C29 witness: a transfer with direction "sideways" and local path
\* /work/tmp/scf.out, made with the connection initialized, has returned the
\* failure; there is no /work/tmp and no process.
C29_Witness ==
    \E t \in Tasks :
        /\ IsScp(t) /\ NonEmpty(atCall[t].config)
        /\ call[t].in.direction = "sideways" /\ call[t].in.local_path = LocalScratch
        /\ result[t].success = FALSE
        /\ result[t].error = "Invalid direction. Must be \"upload\" or \"download\"."
        /\ <<"", "work", "tmp">> \notin files
        /\ spawned[t] = 0

\* C30: only set_slurm_defaults removes keys from the scheduler configuration:
\* a step that is not a set_slurm_defaults call (add_slurm_defaults, prepare)
\* keeps every key, the key account is there after every set_slurm_defaults
\* call, and once there it stays.
C30_KeysOnlyRemovedBySet ==
    [][/\ (slurm_call'.op # "set_slurm_defaults") =>
              Keys(slurm_config) \subseteq Keys(slurm_config')
       /\ (slurm_call'.op = "set_slurm_defaults") => HasKey(slurm_config', "account")
       /\ HasKey(slurm_config, "account") => HasKey(slurm_config', "account")]_vars

\* C30 witness: after set_slurm_defaults the configuration has grown to four
\* keys, more than any one set_slurm_defaults call leaves, and a prepare call
\* has left them all in place.
C30_Witness ==
    /\ IsPrepare
    /\ Keys(slurm_before) = {"account", "partition", "constraint", "queue"}
    /\ Keys(slurm_config) = {"account", "partition", "constraint", "queue"}

\* A step of an executor call (its start, its completion or its timeout), of
\* ssh_info_init, and of a scheduler tool, told by what each of them writes.
ExecutorStep == pc' # pc \/ call' # call \/ result' # result \/ process' # process
InitializeStep == init_result' # init_result \/ lastInit' # lastInit
SchedulerStep ==
    \/ slurm_call'.op # slurm_call.op
    \/ slurm_result' # slurm_result
    \/ slurm_before' # slurm_before

\* C31: the two stores are independent: a step of ssh_info_init, run_ssh_command
\* or run_scp_transfer leaves slurm_config as it was; a step of
\* set_slurm_defaults, add_slurm_defaults or prepare_sbatch_script_perlmutter
\* leaves SSH_CONFIG as it was; and so does every step of the two executors:
\* SSH_CONFIG changes only in a step of ssh_info_init, slurm_config only in a
\* step of set_slurm_defaults or add_slurm_defaults.
C31_StoresIndependent ==
    [][/\ (ExecutorStep \/ InitializeStep) => slurm_config' = slurm_config
       /\ (ExecutorStep \/ SchedulerStep) => SSH_CONFIG' = SSH_CONFIG
       /\ SSH_CONFIG' # SSH_CONFIG =>
            /\ init_result' = Some(ConfirmationMessage(lastInit'[1].host,
                                    lastInit'[1].username, lastInit'[1].key_path))
            /\ SSH_CONFIG' = ConfigOf(lastInit'[1])
       /\ slurm_config' # slurm_config =>
            /\ slurm_call'.op \in {"set_slurm_defaults", "add_slurm_defaults"}
            /\ slurm_before' = slurm_config]_vars

\* C31 witness: both stores are filled, a run call and a transfer call have
\* both completed after the scheduler defaults were set, and prepare has
\* returned its script: the connection configuration is still the one
\* ssh_info_init wrote and the scheduler configuration the one
\* set_slurm_defaults wrote.
C31_Witness ==
    /\ \E t, u \in Tasks :
         /\ IsRun(t) /\ Returned(t) /\ process[t].state = "exited"
         /\ IsScp(u) /\ Returned(u) /\ process[u].state = "exited"
    /\ Reported
    /\ SSH_CONFIG = ConfigOf(lastInit[1])
    /\ slurm_config =
         << <<"account", "m1234">>, <<"queue", "regular">>, <<"partition", "gpu">> >>

\* The result an executor call returns when its process exited in time.
Completion(t) ==
    IF IsRun(t) THEN RunCompleted(call[t].in, process[t])
                ELSE ScpCompleted(call[t].in, operation[t], process[t])

\* The result an executor call returns when its timeout expired first.
Timeout(t) ==
    IF IsRun(t) THEN RunTimeout(call[t].in)
                ELSE ScpTimeout(call[t].in, operation[t])

C33_ToolsRefineOperations ==
    [][/\ \A in \in SetInputs :
            ( /\ slurm_call'.op = "set_slurm_defaults"
              /\ system_manager_set_slurm_defaults(in) ) =>
                (set_slurm_defaults(in) /\ ~slurm_result'.raised)
       /\ \A kwargs \in AddInputs :
            ( /\ slurm_call'.op = "add_slurm_defaults"
              /\ system_manager_add_slurm_defaults(kwargs) ) =>
                (add_slurm_defaults(kwargs) /\ ~slurm_result'.raised)
       /\ \A in \in ServerPrepareInputs :
            ( /\ slurm_call'.op = "prepare_sbatch_script_perlmutter"
              /\ system_manager_prepare_sbatch_script_perlmutter(in) ) =>
                (prepare_sbatch_script_perlmutter(in) /\ ~slurm_result'.raised)]_vars

HasField(t, key) == key \in DOMAIN result[t]

\* C34, as claimed: every result of run and transfer with success False has
\* an 'error' field, and every result with success True has an 'exit_code'
\* field and no 'error' field.
C34_FailureHasError ==
    \A t \in Tasks :
        Returned(t) =>
            /\ result[t].success = FALSE => HasField(t, "error")
            /\ result[t].success = TRUE =>
                    (HasField(t, "exit_code") /\ ~HasField(t, "error"))

\* C34, amended: a result has exactly one of 'error' and 'exit_code'.  It has
\* 'exit_code', and no 'error', exactly when the call's process ran to
\* completion; every result with success True is of that kind, and the only
\* results with success False of that kind are those of a transfer whose
\* process exited with a nonzero code.  Every other result with success False
\* has 'error' and no 'exit_code'.
C34_ErrorOrExitCode ==
    \A t \in Tasks :
        Returned(t) =>
            /\ HasField(t, "error") <=> ~HasField(t, "exit_code")
            /\ HasField(t, "exit_code") <=> process[t].state = "exited"
            /\ result[t].success = TRUE => HasField(t, "exit_code")
            /\ (result[t].success = FALSE /\ HasField(t, "exit_code")) =>
                    (IsScp(t) /\ result[t].exit_code # 0)
            /\ HasField(t, "error") => result[t].success = FALSE

\* C34 witness: a transfer returned success False with exit code 2 and no
\* 'error' field, next to a run call that returned success False with its
\* timeout in 'error' and no exit code.
C34_Witness ==
    \E t, u \in Tasks :
        /\ IsScp(t) /\ Returned(t)
        /\ result[t].success = FALSE
        /\ ~HasField(t, "error")
        /\ result[t].exit_code = 2
        /\ IsRun(u) /\ TimedOut(u)
        /\ ~HasField(u, "exit_code")

\* C35: once ssh_info_init has returned its confirmation string, the
\* connection is initialized and stays so: SSH_CONFIG passes the check of the
\* executors from then on, and no run or transfer call that starts after the
\* confirmation returns the not-initialized result.
C35_ConfirmedStaysInitialized ==
    /\ lastInit # None => AllSet(SSH_CONFIG)
    /\ \A t \in Tasks :
         (Called(t) /\ atCall[t].lastInit # None /\ Returned(t)) =>
              result[t] # NotInitialized

\* C36: set_slurm_defaults is atomic for the other calls on the event loop,
\* executor calls waiting for their processes among them.  What a scheduler
\* call finds in slurm_config is what the step before it left there; a
\* set_slurm_defaults call leaves the whole new configuration, account and
\* extra keys; so a configuration that has an account never shows without
\* one; and prepare_sbatch_script_perlmutter checks its precondition and
\* renders the script on one and the same slurm_config, which it leaves as it
\* was.
C36_SetDefaultsAtomic ==
    [][/\ SchedulerStep => slurm_before' = slurm_config
       /\ (SchedulerStep /\ slurm_call'.op = "set_slurm_defaults") =>
            /\ slurm_config' = update(SetItem(<<>>, "account", slurm_call'.in.account),
                                      slurm_call'.in.kwargs)
            /\ ~slurm_result'.raised
       /\ HasKey(slurm_config, "account") => HasKey(slurm_config', "account")
       /\ (SchedulerStep /\ slurm_call'.op = "prepare_sbatch_script_perlmutter") =>
            /\ slurm_config' = slurm_config
            /\ slurm_result' = PrepareOutcome(slurm_config, files, slurm_call'.in)
            /\ (~slurm_result'.raised /\ ~slurm_result'.list) =>
                    RequiredKeys \subseteq Keys(slurm_config)]_vars

\* C36 witness: while an executor call waits for its process,
\* set_slurm_defaults was called on a configuration that had a constraint:
\* the call found the old configuration whole and left the new one whole, the
\* constraint gone, the account and both extra keys in.
C36_Witness ==
    /\ IsSet
    /\ slurm_before =
         << <<"account", Account1>>, <<"queue", "regular">>, <<"partition", "gpu">>,
            <<"constraint", "gpu">> >>
    /\ slurm_config =
         << <<"account", Account1>>, <<"queue", "regular">>, <<"partition", "gpu">> >>
    /\ \E t \in Tasks : pc[t] = "communicate" /\ process[t].state = "running"

\* The transfer calls that passed all three preconditions.
PassedPreconditions ==
    { t \in Tasks :
        /\ IsScp(t)
        /\ AllSet(atCall[t].config)
        /\ call[t].in.direction \in {"upload", "download"}
        /\ ~(call[t].in.direction = "upload" /\ call[t].in.local_path \notin InitialFiles) }

\* C37: run_scp_transfer checks its preconditions in a fixed order and
\* reports the first that fails: not initialized, whatever the direction and
\* the local path; then invalid direction; then, for an upload, local path
\* missing.  A call that fails one of them spawns no process, and the local
\* filesystem holds nothing but what it held at the start and the
\* directories made for the downloads that passed all three.
C37_PreconditionOrder ==
    /\ \A t \in Tasks :
         IsScp(t) =>
            /\ ~AllSet(atCall[t].config) => result[t] = NotInitialized
            /\ ( /\ AllSet(atCall[t].config)
                 /\ call[t].in.direction \notin {"upload", "download"} ) =>
                    result[t] = InvalidDirection
            /\ ( /\ AllSet(atCall[t].config)
                 /\ call[t].in.direction = "upload"
                 /\ call[t].in.local_path \notin InitialFiles ) =>
                    result[t] = LocalPathMissing(call[t].in, operation[t])
            /\ t \notin PassedPreconditions =>
                    (Returned(t) /\ spawned[t] = 0 /\ process[t] = NoProcess)
    /\ files = InitialFiles \cup
                UNION { WithParents(dirname(call[t].in.local_path)) :
                          t \in { u \in PassedPreconditions :
                                    call[u].in.direction = "download" } }

\* C37 witness: a transfer with an invalid direction, made before the
\* connection was initialized, reported not-initialized; an upload of a
\* missing file, made after, reported the missing path; neither spawned a
\* process and the filesystem is as it was at the start.
C37_Witness ==
    \E t, u \in Tasks :
        /\ IsScp(t) /\ call[t].in.direction = "sideways"
        /\ result[t] = NotInitialized
        /\ IsScp(u) /\ call[u].in.direction = "upload"
        /\ AllSet(atCall[u].config)
        /\ result[u] = LocalPathMissing(call[u].in, operation[u])
        /\ spawned[t] = 0 /\ spawned[u] = 0
        /\ files = InitialFiles

====
